---- MODULE Spec2Model ----
(***************************************************************************)
(* A model of golang.org/x/crypto/ssh (moriyoshi fork): the linked-list    *)
(* buffer of ssh/buffer.go with its worker goroutine, and the deadline     *)
(* wrappers of ssh/cancelable_bufio.go.                                    *)
(*                                                                         *)
(* Tasks: the producer (write), the closer (eof), the consumer             *)
(* (ReadWithContext), the worker goroutine started by newBuffer, and the   *)
(* context passed to ReadWithContext.  Channel operations are modelled by  *)
(* their Go semantics: a send on the unbuffered opCh or doneCh is a        *)
(* rendezvous of the sender and the receiver, the reply channel of a read  *)
(* has capacity one, a closed channel is always ready to be received from. *)
(***************************************************************************)
EXTENDS Integers, Sequences, FiniteSets, TLC

\* ---------------------------------------------------------------- bounds

\* how many write calls the producer makes
MaxWrites == 2
\* the longest byte run handed to one write call
MaxSegLen == 2
\* how many bytes the producer hands to write in all
MaxBytes == 3
\* the largest destination handed to ReadWithContext
MaxDest == 2
\* how many eof calls the closer makes
MaxEof == 2
\* the latest instant a deadline can name
MaxTime == 2
\* how many bytes are read or written through a wrapper
MaxIo == 2

\* ----------------------------------------------------------------- state

VARIABLES
    heap,        \* the elements allocated so far: heap[i] = [buf, next], next = 0 is nil
    head,        \* buffer.head
    tail,        \* buffer.tail
    closed,      \* buffer.closed
    mu,          \* buffer.mu: "free", or the task holding it
    opChClosed,  \* close(b.opCh) has run
    opChCloses,  \* how often close(b.opCh) has run
    finChClosed, \* close(b.finCh) has run
    wpc,         \* the worker: "recv", "run", "ack" (blocked on doneCh <-), "exit"
    wop,         \* the command the worker holds
    ppc,         \* the producer: "idle", "send", "wait", "panic"
    pdata,       \* the byte run of the write call in progress
    nwrites,     \* write calls made
    nwritten,    \* bytes handed to write calls
    linked,      \* history: the bytes linked onto tail, in link order
    cpc,         \* the closer: "idle", "lock", "check", "close", "unlock"
    neof,        \* eof calls made
    rpc,         \* the consumer: "idle", "lock", "send", "unlock", "select", "panic"
    rm,          \* len(buf) of the ReadWithContext call
    rclosed,     \* the call's snapshot of b.closed
    rch,         \* the reply channel of the current iteration (0: nil)
    ctx,         \* the call's context: "never", "armed", "fired"
    rres,        \* what the last ReadWithContext call returned
    slots,       \* reply channels and the bytes their commands copied into buf
    delivered,   \* history: the bytes returned by reads that returned n > 0
    fault,       \* a panic of the Go runtime: "none", "closeClosed", "sendClosed"
    rd,          \* the reader wrapped by bufReaderWithDeadline
    wr,          \* the writer wrapped by bufWriterWithDeadline
    dres         \* what the last wrapper call returned

chainVars == <<heap, head, tail>>
chanVars == <<opChClosed, opChCloses, finChClosed>>
workerVars == <<wpc, wop>>
producerVars == <<ppc, pdata, nwrites, nwritten>>
closerVars == <<cpc, neof>>
consumerVars == <<rpc, rm, rclosed, rch, ctx, rres>>
wrapVars == <<rd, wr, dres>>
bufferVars == <<chainVars, closed, mu, chanVars, workerVars, producerVars, linked,
                closerVars, consumerVars, slots, delivered, fault>>
vars == <<bufferVars, wrapVars>>

\* ------------------------------------------------------------- constants

Min(a, b) == IF a < b THEN a ELSE b

NoOp == [kind |-> "none"]
SlotIds == {1, 2}
\* a reply channel (capacity one) holding nothing, and no bytes copied
EmptySlot == [ch |-> <<>>, buf |-> <<>>]
NoResult == [n |-> 0, err |-> "none", fired |-> FALSE]
Tokens == {"never", "armed", "fired"}
\* no deadline set: deadlines are <<>> or <<t>>
NoDeadline == <<>>
\* time.Unix(0, 0); the clock stands just after it, so that a deadline at the
\* epoch has passed and a later one has not
Epoch == 0
Times == Epoch .. MaxTime

\* the bytes of the k-th to the (k+len-1)-th position of the appended stream
Bytes(from, len) == [i \in 1 .. len |-> from + i]

\* the stream of all bytes handed to write, in call order
Appended == Bytes(0, nwritten)

IsPrefix(s, t) == Len(s) <= Len(t) /\ SubSeq(t, 1, Len(s)) = s

\* ------------------------------------------------------- buffer.read

\* the loop of buffer.read: room is len(buf), out the bytes copied so far
RECURSIVE readLoop(_, _, _, _, _)
readLoop(hp, hd, tl, room, out) ==
    IF room = 0
    THEN [heap |-> hp, head |-> hd, out |-> out]
    ELSE IF Len(hp[hd].buf) > 0
    THEN LET r == Min(room, Len(hp[hd].buf))
         IN readLoop([hp EXCEPT ![hd].buf = SubSeq(@, r + 1, Len(@))], hd, tl,
                     room - r, out \o SubSeq(hp[hd].buf, 1, r))
    ELSE IF hd # tl
    THEN readLoop(hp, hp[hd].next, tl, room, out)
    ELSE [heap |-> hp, head |-> hd, out |-> out]

\* a read that stops at the end of the head element instead of moving on
readOneElement(hp, hd, tl, m) ==
    LET k == IF Len(hp[hd].buf) = 0 /\ hd # tl THEN hp[hd].next ELSE hd
        r == Min(m, Len(hp[k].buf))
    IN [heap |-> [hp EXCEPT ![k].buf = SubSeq(@, r + 1, Len(@))], head |-> k,
        out |-> SubSeq(hp[k].buf, 1, r)]

\* a read that makes the next element the head although head holds bytes
readSkipping(hp, hd, tl, m) ==
    IF hd # tl THEN readLoop(hp, hp[hd].next, tl, m, <<>>)
    ELSE readLoop(hp, hd, tl, m, <<>>)

\* b.read(buf) with len(buf) = m: the chain afterwards and the bytes copied
read(hp, hd, tl, m) == readLoop(hp, hd, tl, m, <<>>)

\* the unread bytes of the chain, from head to tail
RECURSIVE chainBytes(_, _, _)
chainBytes(hp, hd, tl) ==
    IF hd = tl \/ hp[hd].next = 0 THEN hp[hd].buf
    ELSE hp[hd].buf \o chainBytes(hp, hp[hd].next, tl)

Unread == chainBytes(heap, head, tail)

\* ------------------------------------------------------------- newBuffer

InitBuffer ==
    /\ heap = <<[buf |-> <<>>, next |-> 0]>>
    /\ head = 1
    /\ tail = 1
    /\ closed = FALSE
    /\ mu = "free"
    /\ opChClosed = FALSE
    /\ opChCloses = 0
    /\ finChClosed = FALSE
    /\ wpc = "recv"
    /\ wop = NoOp
    /\ ppc = "idle"
    /\ pdata = <<>>
    /\ nwrites = 0
    /\ nwritten = 0
    /\ linked = <<>>
    /\ cpc = "idle"
    /\ neof = 0
    /\ rpc = "idle"
    /\ rm = 0
    /\ rclosed = FALSE
    /\ rch = 0
    /\ ctx = "never"
    /\ rres = NoResult
    /\ slots = [i \in SlotIds |-> EmptySlot]
    /\ delivered = <<>>
    /\ fault = "none"

\* an io.Reader or io.Writer: cap says whether it has the deadline setter,
\* deadline is the deadline it holds, got the argument of the last call of its
\* setter, ret what that call returned, pos the bytes read or written so far
Object(c) == [cap |-> c, deadline |-> NoDeadline, got |-> <<>>, ret |-> "none", pos |-> 0]

NoCall == [op |-> "none", t |-> <<>>, err |-> "nil"]

\* the wrappers around a reader and a writer that nobody uses
InitWrapIdle ==
    /\ rd = Object(FALSE)
    /\ wr = Object(FALSE)
    /\ dres = NoCall

\* newBufReaderWithDeadline(r), newBufWriterWithDeadline(w) for any r and w
InitWrap ==
    /\ rd \in {Object(c) : c \in BOOLEAN}
    /\ wr \in {Object(c) : c \in BOOLEAN}
    /\ dres = NoCall

Init == InitBuffer /\ InitWrapIdle

\* ---------------------------------------------------------- buffer.write

\* a closure of write that links e but leaves b.tail where it was
linkElementNoTail(hp, tl, data) ==
    [heap |-> Append([hp EXCEPT ![tl].next = Len(hp) + 1], [buf |-> data, next |-> 0]),
     tail |-> tl]

\* a closure of write that makes e the tail without linking it to the old one
linkElementNoNext(hp, tl, data) ==
    [heap |-> Append(hp, [buf |-> data, next |-> 0]),
     tail |-> Len(hp) + 1]

\* the closure of write: e := &element{buf: buf}; b.tail.next = e; b.tail = e
linkElement(hp, tl, data) ==
    [heap |-> Append([hp EXCEPT ![tl].next = Len(hp) + 1], [buf |-> data, next |-> 0]),
     tail |-> Len(hp) + 1]

\* write(buf) is called; the producer calls write before it calls eof
WriteCall(len) ==
    /\ ppc = "idle"
    /\ nwrites < MaxWrites
    /\ nwritten + len <= MaxBytes
    /\ neof = 0
    /\ ppc' = "send"
    /\ pdata' = Bytes(nwritten, len)
    /\ nwrites' = nwrites + 1
    /\ nwritten' = nwritten + len
    /\ UNCHANGED <<chainVars, closed, mu, chanVars, workerVars, linked, closerVars,
                   consumerVars, slots, delivered, fault, wrapVars>>

\* a write that does not wait for the worker: it returns once the closure is sent
WriteSendNoAck ==
    /\ ppc = "send"
    /\ ~opChClosed
    /\ wpc = "recv"
    /\ wpc' = "run"
    /\ wop' = [kind |-> "write", data |-> pdata]
    /\ ppc' = "idle"
    /\ pdata' = <<>>
    /\ UNCHANGED <<chainVars, closed, mu, chanVars, nwrites, nwritten, linked,
                   closerVars, consumerVars, slots, delivered, fault,
                   wrapVars>>

\* a send on b.opCh that goes through although the channel is closed
WriteSendIgnoresClose ==
    /\ ppc = "send"
    /\ wpc = "recv"
    /\ wpc' = "run"
    /\ wop' = [kind |-> "write", data |-> pdata]
    /\ ppc' = "wait"
    /\ UNCHANGED <<chainVars, closed, mu, chanVars, pdata, nwrites, nwritten, linked,
                   closerVars, consumerVars, slots, delivered, fault,
                   wrapVars>>

\* b.opCh <- func() {...}: the worker receives the closure
WriteSend ==
    /\ ppc = "send"
    /\ ~opChClosed
    /\ wpc = "recv"
    /\ wpc' = "run"
    /\ wop' = [kind |-> "write", data |-> pdata]
    /\ ppc' = "wait"
    /\ UNCHANGED <<chainVars, closed, mu, chanVars, pdata, nwrites, nwritten, linked,
                   closerVars, consumerVars, slots, delivered, fault,
                   wrapVars>>

\* the worker runs the closure of write up to its send on doneCh
WorkerRunWrite ==
    /\ wpc = "run"
    /\ wop.kind = "write"
    /\ LET l == linkElement(heap, tail, wop.data)
       IN /\ heap' = l.heap
          /\ tail' = l.tail
    /\ linked' = linked \o wop.data
    /\ wpc' = "ack"
    /\ UNCHANGED <<head, closed, mu, chanVars, wop, producerVars, closerVars,
                   consumerVars, slots, delivered, fault, wrapVars>>

\* doneCh <- struct{}{} in the worker meets <-doneCh in write, which returns
WriteAck ==
    /\ wpc = "ack"
    /\ ppc = "wait"
    /\ wpc' = "recv"
    /\ wop' = NoOp
    /\ ppc' = "idle"
    /\ pdata' = <<>>
    /\ UNCHANGED <<chainVars, closed, mu, chanVars, nwrites, nwritten, linked,
                   closerVars, consumerVars, slots, delivered, fault,
                   wrapVars>>

\* write(buf) is called by a producer that does not wait for eof or care
\* about it
WriteCallAnytime(len) ==
    /\ ppc = "idle"
    /\ nwrites < MaxWrites
    /\ nwritten + len <= MaxBytes
    /\ ppc' = "send"
    /\ pdata' = Bytes(nwritten, len)
    /\ nwrites' = nwrites + 1
    /\ nwritten' = nwritten + len
    /\ UNCHANGED <<chainVars, closed, mu, chanVars, workerVars, linked, closerVars,
                   consumerVars, slots, delivered, fault, wrapVars>>

\* b.opCh <- func() {...} on the closed channel, or blocked there when the
\* channel is closed: the send panics
WritePanic ==
    /\ ppc = "send"
    /\ opChClosed
    /\ ppc' = "panic"
    /\ fault' = "sendClosed"
    /\ UNCHANGED <<chainVars, closed, mu, chanVars, workerVars, pdata, nwrites, nwritten,
                   linked, closerVars, consumerVars, slots, delivered, wrapVars>>

\* ------------------------------------------------------------ buffer.eof

\* an eof that closes whatever the flag says
eofAlwaysCloses(c) == TRUE

\* if !b.closed
eofMustClose(c) == ~c

\* eof() is called; the producer calls it after its writes have returned
EofCall ==
    /\ cpc = "idle"
    /\ neof < MaxEof
    /\ ppc = "idle"
    /\ cpc' = "lock"
    /\ neof' = neof + 1
    /\ UNCHANGED <<chainVars, closed, mu, chanVars, workerVars, producerVars, linked,
                   consumerVars, slots, delivered, fault, wrapVars>>

\* eof() is called while a write may be in progress
EofCallAnytime ==
    /\ cpc = "idle"
    /\ neof < MaxEof
    /\ cpc' = "lock"
    /\ neof' = neof + 1
    /\ UNCHANGED <<chainVars, closed, mu, chanVars, workerVars, producerVars, linked,
                   consumerVars, slots, delivered, fault, wrapVars>>

\* b.mu.Lock()
EofLock ==
    /\ cpc = "lock"
    /\ mu = "free"
    /\ mu' = "closer"
    /\ cpc' = "check"
    /\ UNCHANGED <<chainVars, closed, chanVars, workerVars, producerVars, linked, neof,
                   consumerVars, slots, delivered, fault, wrapVars>>

\* if !b.closed { b.closed = true
EofCheck ==
    /\ cpc = "check"
    /\ IF eofMustClose(closed)
       THEN closed' = TRUE /\ cpc' = "close"
       ELSE closed' = closed /\ cpc' = "unlock"
    /\ UNCHANGED <<chainVars, mu, chanVars, workerVars, producerVars, linked, neof,
                   consumerVars, slots, delivered, fault, wrapVars>>

\* close(b.opCh): closing a closed channel panics
EofClose ==
    /\ cpc = "close"
    /\ IF opChClosed
       THEN /\ fault' = "closeClosed"
            /\ cpc' = "panic"
            /\ UNCHANGED <<opChClosed, opChCloses>>
       ELSE /\ opChClosed' = TRUE
            /\ opChCloses' = opChCloses + 1
            /\ cpc' = "unlock"
            /\ fault' = fault
    /\ UNCHANGED <<chainVars, closed, mu, finChClosed, workerVars, producerVars, linked,
                   neof, consumerVars, slots, delivered, wrapVars>>

\* the deferred b.mu.Unlock(); eof returns
EofUnlock ==
    /\ cpc = "unlock"
    /\ mu' = "free"
    /\ cpc' = "idle"
    /\ UNCHANGED <<chainVars, closed, chanVars, workerVars, producerVars, linked, neof,
                   consumerVars, slots, delivered, fault, wrapVars>>

\* -------------------------------------------------- the worker goroutine

\* a closure of ReadWithContext that replies on an unbuffered channel: the
\* worker stays in ch <- until the call that made ch receives
WorkerRunReadUnbuffered ==
    /\ wpc = "run"
    /\ wop.kind = "read"
    /\ rpc = "select"
    /\ wop.slot = rch
    /\ LET r == read(heap, head, tail, wop.m)
       IN /\ heap' = r.heap
          /\ head' = r.head
          /\ slots' = [slots EXCEPT ![rch] = [ch |-> <<Len(r.out)>>, buf |-> r.out]]
    /\ wpc' = "recv"
    /\ wop' = NoOp
    /\ UNCHANGED <<tail, closed, mu, chanVars, producerVars, linked, closerVars,
                   consumerVars, delivered, fault, wrapVars>>

\* the worker runs the closure of ReadWithContext: ch <- b.read(buf)
WorkerRunRead ==
    /\ wpc = "run"
    /\ wop.kind = "read"
    /\ LET r == read(heap, head, tail, wop.m)
       IN /\ heap' = r.heap
          /\ head' = r.head
          /\ slots' = IF wop.slot = rch
                       THEN [slots EXCEPT ![rch] = [ch |-> <<Len(r.out)>>, buf |-> r.out]]
                       ELSE slots
    /\ wpc' = "recv"
    /\ wop' = NoOp
    /\ UNCHANGED <<tail, closed, mu, chanVars, producerVars, linked, closerVars,
                   consumerVars, delivered, fault, wrapVars>>

\* for bop := range b.opCh ends on the closed channel; close(b.finCh)
WorkerExit ==
    /\ wpc = "recv"
    /\ opChClosed
    /\ wpc' = "exit"
    /\ finChClosed' = TRUE
    /\ UNCHANGED <<chainVars, closed, mu, opChClosed, opChCloses, wop, producerVars,
                   linked, closerVars, consumerVars, slots, delivered, fault,
                   wrapVars>>

\* ------------------------------------------------ buffer.ReadWithContext

\* a channel no command of the worker refers to: ch = make(chan int, 1)
freshSlot == IF wop.kind = "read" /\ wop.slot = 1 THEN 2 ELSE 1

\* how the call ends: return n, err
returned(n, err) ==
    /\ rpc' = "idle"
    /\ rch' = 0
    /\ rm' = 0
    /\ rclosed' = FALSE
    /\ ctx' = "never"
    /\ rres' = [n |-> n, err |-> err, fired |-> (ctx = "fired")]

\* a ReadWithContext that enters its loop without looking at len(buf)
ReadCallNoLenCheck(m, tok) ==
    /\ rpc = "idle"
    /\ rclosed' = FALSE
    /\ rch' = 0
    /\ rpc' = "lock" /\ rres' = NoResult /\ rm' = m /\ ctx' = tok
    /\ UNCHANGED <<chainVars, closed, mu, chanVars, workerVars, producerVars, linked,
                   closerVars, slots, delivered, fault, wrapVars>>

\* ReadWithContext(ctx, buf) is called with len(buf) = m; for len(buf) > 0 is
\* false at once when m = 0
ReadCall(m, tok) ==
    /\ rpc = "idle"
    /\ rclosed' = FALSE
    /\ rch' = 0
    /\ IF m > 0
       THEN rpc' = "lock" /\ rres' = NoResult /\ rm' = m /\ ctx' = tok
       ELSE /\ rpc' = "idle"
            /\ rres' = [n |-> 0, err |-> "nil", fired |-> (tok = "fired")]
            /\ rm' = 0
            /\ ctx' = "never"
    /\ UNCHANGED <<chainVars, closed, mu, chanVars, workerVars, producerVars, linked,
                   closerVars, slots, delivered, fault, wrapVars>>

\* a ReadWithContext that takes its snapshot of b.closed and goes on to send
\* without b.mu
ReadLockNoMutex ==
    /\ rpc = "lock"
    /\ mu' = mu
    /\ rclosed' = closed
    /\ IF closed
       THEN rpc' = "unlock" /\ rch' = 0 /\ slots' = slots
       ELSE /\ rpc' = "send"
            /\ rch' = freshSlot
            /\ slots' = [slots EXCEPT ![freshSlot] = EmptySlot]
    /\ UNCHANGED <<chainVars, closed, chanVars, workerVars, producerVars, linked,
                   closerVars, rm, ctx, rres, delivered, fault, wrapVars>>

\* b.mu.Lock(); closed := b.closed; if !closed { ch = make(chan int, 1)
ReadLock ==
    /\ rpc = "lock"
    /\ mu = "free"
    /\ mu' = "reader"
    /\ rclosed' = closed
    /\ IF closed
       THEN rpc' = "unlock" /\ rch' = 0 /\ slots' = slots
       ELSE /\ rpc' = "send"
            /\ rch' = freshSlot
            /\ slots' = [slots EXCEPT ![freshSlot] = EmptySlot]
    /\ UNCHANGED <<chainVars, closed, chanVars, workerVars, producerVars, linked,
                   closerVars, rm, ctx, rres, delivered, fault, wrapVars>>

\* b.opCh <- func() { ch <- b.read(buf) }, with b.mu held: the worker receives
\* the closure; a send on a closed channel panics
ReadSend ==
    /\ rpc = "send"
    /\ IF opChClosed
       THEN /\ fault' = "sendClosed"
            /\ rpc' = "panic"
            /\ UNCHANGED workerVars
       ELSE /\ wpc = "recv"
            /\ wpc' = "run"
            /\ wop' = [kind |-> "read", m |-> rm, slot |-> rch]
            /\ rpc' = "unlock"
            /\ fault' = fault
    /\ UNCHANGED <<chainVars, closed, mu, chanVars, producerVars, linked, closerVars,
                   rm, rclosed, rch, ctx, rres, slots, delivered, wrapVars>>

\* a ReadWithContext that goes on to its select with b.mu still held
ReadKeepsLock ==
    /\ rpc = "unlock"
    /\ mu' = mu
    /\ rpc' = "select"
    /\ UNCHANGED <<chainVars, closed, chanVars, workerVars, producerVars, linked,
                   closerVars, rm, rclosed, rch, ctx, rres, slots, delivered,
                   fault, wrapVars>>

\* b.mu.Unlock()
ReadUnlock ==
    /\ rpc = "unlock"
    /\ mu' = "free"
    /\ rpc' = "select"
    /\ UNCHANGED <<chainVars, closed, chanVars, workerVars, producerVars, linked,
                   closerVars, rm, rclosed, rch, ctx, rres, slots, delivered,
                   fault, wrapVars>>

\* a closed branch that reports io.EOF without draining the chain
ReadFinNoDrain ==
    /\ rpc = "select"
    /\ rclosed
    /\ finChClosed
    /\ returned(0, "EOF")
    /\ UNCHANGED <<chainVars, closed, mu, chanVars, workerVars, producerVars, linked,
                   closerVars, slots, delivered, fault, wrapVars>>

\* a closed branch that drains the chain without waiting for b.finCh
ReadFinNoWait ==
    /\ rpc = "select"
    /\ rclosed
    /\ LET r == read(heap, head, tail, rm)
       IN /\ heap' = r.heap
          /\ head' = r.head
          /\ delivered' = delivered \o r.out
          /\ IF Len(r.out) > 0 THEN returned(Len(r.out), "nil") ELSE returned(0, "EOF")
    /\ UNCHANGED <<tail, closed, mu, chanVars, workerVars, producerVars, linked,
                   closerVars, slots, fault, wrapVars>>

\* closed: case <-b.finCh, then n = b.read(buf); n > 0 returns, else io.EOF
ReadFin ==
    /\ rpc = "select"
    /\ rclosed
    /\ finChClosed
    /\ LET r == read(heap, head, tail, rm)
       IN /\ heap' = r.heap
          /\ head' = r.head
          /\ delivered' = delivered \o r.out
          /\ IF Len(r.out) > 0 THEN returned(Len(r.out), "nil") ELSE returned(0, "EOF")
    /\ UNCHANGED <<tail, closed, mu, chanVars, workerVars, producerVars, linked,
                   closerVars, slots, fault, wrapVars>>

\* an open branch that looks at b.closed again, not at its snapshot, when n = 0
ReadReplyChecksFlag ==
    /\ rpc = "select"
    /\ ~rclosed
    /\ slots[rch].ch # <<>>
    /\ LET n == slots[rch].ch[1]
       IN /\ slots' = [slots EXCEPT ![rch] = EmptySlot]
          /\ IF n > 0
             THEN /\ returned(n, "nil")
                  /\ delivered' = delivered \o SubSeq(slots[rch].buf, 1, n)
             ELSE IF closed
             THEN /\ returned(0, "EOF")
                  /\ delivered' = delivered
             ELSE /\ rpc' = "lock"
                  /\ delivered' = delivered
                  /\ UNCHANGED <<rm, rclosed, rch, ctx, rres>>
    /\ UNCHANGED <<chainVars, closed, mu, chanVars, workerVars, producerVars, linked,
                   closerVars, fault, wrapVars>>

\* an open branch that returns whatever the worker replied, zero included
ReadReplyNoLoop ==
    /\ rpc = "select"
    /\ ~rclosed
    /\ slots[rch].ch # <<>>
    /\ LET n == slots[rch].ch[1]
       IN /\ slots' = [slots EXCEPT ![rch] = EmptySlot]
          /\ returned(n, "nil")
          /\ delivered' = delivered \o SubSeq(slots[rch].buf, 1, n)
    /\ UNCHANGED <<chainVars, closed, mu, chanVars, workerVars, producerVars, linked,
                   closerVars, fault, wrapVars>>

\* not closed: case n = <-ch; n > 0 returns, else the loop starts over with
\* the named result n as received
ReadReply ==
    /\ rpc = "select"
    /\ ~rclosed
    /\ slots[rch].ch # <<>>
    /\ LET n == slots[rch].ch[1]
       IN /\ slots' = [slots EXCEPT ![rch] = EmptySlot]
          /\ IF n > 0
             THEN /\ returned(n, "nil")
                  /\ delivered' = delivered \o SubSeq(slots[rch].buf, 1, n)
             ELSE /\ rpc' = "lock"
                  /\ delivered' = delivered
                  /\ rres' = [rres EXCEPT !.n = n]
                  /\ UNCHANGED <<rm, rclosed, rch, ctx>>
    /\ UNCHANGED <<chainVars, closed, mu, chanVars, workerVars, producerVars, linked,
                   closerVars, fault, wrapVars>>

\* a select that takes the reply and the cancellation at once: the count of
\* the reply is returned together with context.Canceled
ReadCancelWithCount ==
    /\ rpc = "select"
    /\ ctx = "fired"
    /\ returned(IF rch # 0 /\ slots[rch].ch # <<>> THEN slots[rch].ch[1] ELSE rres.n,
                "canceled")
    /\ slots' = [i \in SlotIds |-> EmptySlot]
    /\ UNCHANGED <<chainVars, closed, mu, chanVars, workerVars, producerVars, linked,
                   closerVars, delivered, fault, wrapVars>>

\* either select: case <-ctx.Done(): err = context.Canceled; break outer; the
\* named result n is what the iterations before left in it
ReadCancel ==
    /\ rpc = "select"
    /\ ctx = "fired"
    /\ returned(rres.n, "canceled")
    /\ slots' = [i \in SlotIds |-> EmptySlot]
    /\ UNCHANGED <<chainVars, closed, mu, chanVars, workerVars, producerVars, linked,
                   closerVars, delivered, fault, wrapVars>>

\* the context of the call in progress is canceled or its deadline passes
CtxFire ==
    /\ rpc # "idle"
    /\ ctx = "armed"
    /\ ctx' = "fired"
    /\ UNCHANGED <<chainVars, closed, mu, chanVars, workerVars, producerVars, linked,
                   closerVars, rpc, rm, rclosed, rch, rres, slots, delivered,
                   fault, wrapVars>>

\* ------------------------------------------------ cancelable_bufio.go

\* a type assertion that always succeeds
assertsAnything(o) == TRUE

\* rs, ok := r.UnderlyingReader.(readerWithDeadlineSetter)
isReaderWithDeadlineSetter(o) == o.cap

\* ws, ok := r.UnderlyingWriter.(writerWithDeadlineSetter)
isWriterWithDeadlineSetter(o) == o.cap

\* the deadline has passed
expired(o) == o.deadline # NoDeadline /\ o.deadline[1] <= Epoch

\* the object's own SetReadDeadline or SetWriteDeadline: it returns e, and
\* holds the deadline when e is nil
setDeadline(o, t, e) ==
    [o EXCEPT !.got = <<t>>, !.ret = e,
              !.deadline = IF e = "nil" THEN <<t>> ELSE @]

\* (*bufReaderWithDeadline).SetReadDeadline(t)
SetReadDeadline(t) ==
    /\ IF ~isReaderWithDeadlineSetter(rd)
       THEN /\ dres' = [op |-> "SetReadDeadline", t |-> <<t>>, err |-> "unsupported"]
            /\ rd' = rd
       ELSE \E e \in {"nil", "failed"} :
            /\ rd' = setDeadline(rd, t, e)
            /\ dres' = [op |-> "SetReadDeadline", t |-> <<t>>, err |-> e]
    /\ UNCHANGED <<bufferVars, wr>>

\* (*bufWriterWithDeadline).SetWriteDeadline(t)
SetWriteDeadline(t) ==
    /\ IF ~isWriterWithDeadlineSetter(wr)
       THEN /\ dres' = [op |-> "SetWriteDeadline", t |-> <<t>>, err |-> "unsupported"]
            /\ wr' = wr
       ELSE \E e \in {"nil", "failed"} :
            /\ wr' = setDeadline(wr, t, e)
            /\ dres' = [op |-> "SetWriteDeadline", t |-> <<t>>, err |-> e]
    /\ UNCHANGED <<bufferVars, rd>>

\* a tryCancelReader that installs a deadline still to come
TryCancelReaderLater ==
    /\ IF isReaderWithDeadlineSetter(rd)
       THEN \E e \in {"nil", "failed"} :
            /\ rd' = setDeadline(rd, MaxTime, e)
            /\ dres' = [op |-> "tryCancelReader", t |-> <<MaxTime>>, err |-> e]
       ELSE /\ dres' = [op |-> "tryCancelReader", t |-> <<>>, err |-> "unsupported"]
            /\ rd' = rd
    /\ UNCHANGED <<bufferVars, wr>>

\* tryCancelReader(r) on the wrapped reader
TryCancelReader ==
    /\ IF isReaderWithDeadlineSetter(rd)
       THEN \E e \in {"nil", "failed"} :
            /\ rd' = setDeadline(rd, Epoch, e)
            /\ dres' = [op |-> "tryCancelReader", t |-> <<Epoch>>, err |-> e]
       ELSE /\ dres' = [op |-> "tryCancelReader", t |-> <<>>, err |-> "unsupported"]
            /\ rd' = rd
    /\ UNCHANGED <<bufferVars, wr>>

\* tryCancelWriter(w) on the wrapped writer
TryCancelWriter ==
    /\ IF isWriterWithDeadlineSetter(wr)
       THEN \E e \in {"nil", "failed"} :
            /\ wr' = setDeadline(wr, Epoch, e)
            /\ dres' = [op |-> "tryCancelWriter", t |-> <<Epoch>>, err |-> e]
       ELSE /\ dres' = [op |-> "tryCancelWriter", t |-> <<>>, err |-> "unsupported"]
            /\ wr' = wr
    /\ UNCHANGED <<bufferVars, rd>>

\* Read through the embedded *bufio.Reader: the wrapped reader yields a byte
\* unless its deadline has passed
WrapRead ==
    /\ rd.pos < MaxIo
    /\ IF expired(rd)
       THEN rd' = rd /\ dres' = [op |-> "Read", t |-> <<>>, err |-> "timeout"]
       ELSE /\ rd' = [rd EXCEPT !.pos = @ + 1]
            /\ dres' = [op |-> "Read", t |-> <<>>, err |-> "nil"]
    /\ UNCHANGED <<bufferVars, wr>>

\* Write and Flush through the embedded *bufio.Writer: the wrapped writer
\* takes a byte unless its deadline has passed
WrapWrite ==
    /\ wr.pos < MaxIo
    /\ IF expired(wr)
       THEN wr' = wr /\ dres' = [op |-> "Write", t |-> <<>>, err |-> "timeout"]
       ELSE /\ wr' = [wr EXCEPT !.pos = @ + 1]
            /\ dres' = [op |-> "Write", t |-> <<>>, err |-> "nil"]
    /\ UNCHANGED <<bufferVars, rd>>

NextDeadline ==
    \/ \E t \in Times : SetReadDeadline(t)
    \/ \E t \in Times : SetWriteDeadline(t)
    \/ TryCancelReader
    \/ TryCancelWriter
    \/ WrapRead
    \/ WrapWrite

InitDeadline == InitBuffer /\ InitWrap

SpecDeadline == InitDeadline /\ [][NextDeadline]_vars

\* ------------------------------------------------------- specifications

Producer == (\E len \in 0 .. MaxSegLen : WriteCall(len)) \/ WriteSend \/ WriteAck

Closer == EofCall \/ EofLock \/ EofCheck \/ EofClose \/ EofUnlock

Worker == WorkerRunWrite \/ WorkerRunRead \/ WorkerExit

ConsumerSteps == ReadLock \/ ReadSend \/ ReadUnlock \/ ReadFin \/ ReadReply

\* every task of the buffer, with contexts that may fire
Next ==
    \/ Producer
    \/ Closer
    \/ Worker
    \/ \E m \in 0 .. MaxDest, tok \in Tokens : ReadCall(m, tok)
    \/ ConsumerSteps
    \/ ReadCancel
    \/ CtxFire

Spec == Init /\ [][Next]_vars

\* the same tasks, with contexts that never fire
NextNoCancel ==
    \/ Producer
    \/ Closer
    \/ Worker
    \/ \E m \in 0 .. MaxDest : ReadCall(m, "never")
    \/ ConsumerSteps

SpecNoCancel == Init /\ [][NextNoCancel]_vars

\* the appends, then eof, then the reads: no read is issued before eof returned
NextSeq ==
    \/ Producer
    \/ Closer
    \/ WorkerRunWrite
    \/ WorkerExit
    \/ \E m \in 1 .. MaxDest : neof >= 1 /\ cpc = "idle" /\ ReadCall(m, "never")
    \/ ReadLock
    \/ ReadUnlock
    \/ ReadFin

SpecSeq == Init /\ [][NextSeq]_vars

\* every task takes its next step eventually; a select with several ready
\* cases picks each of them sooner or later
Fairness ==
    /\ WF_vars(WriteSend \/ WriteAck)
    /\ WF_vars(EofLock \/ EofCheck \/ EofClose \/ EofUnlock)
    /\ WF_vars(Worker)
    /\ WF_vars(ConsumerSteps)
    /\ SF_vars(ReadCancel)

\* every task of the buffer, with contexts that may fire and reads into a
\* destination of MaxDest bytes
NextFair ==
    \/ Producer
    \/ Closer
    \/ Worker
    \/ \E tok \in Tokens : ReadCall(MaxDest, tok)
    \/ ConsumerSteps
    \/ ReadCancel
    \/ CtxFire

FairSpec == Init /\ [][NextFair]_vars /\ Fairness

\* the senders blocked on b.opCh are served in the order they came (the
\* runtime's queue of waiting senders), so a write that keeps finding the
\* worker receiving gets its turn
FairnessFifo ==
    /\ SF_vars(WriteSend)
    /\ WF_vars(WriteAck)
    /\ WF_vars(Worker)

FairSpecFifo == Init /\ [][NextFair]_vars /\ FairnessFifo

\* a task blocked in b.mu.Lock() gets the mutex although another task keeps
\* taking and releasing it (sync.Mutex hands a starving waiter the lock)
FairnessMutex ==
    /\ WF_vars(WriteSend \/ WriteAck)
    /\ SF_vars(EofLock)
    /\ WF_vars(EofCheck \/ EofClose \/ EofUnlock)
    /\ WF_vars(Worker)
    /\ WF_vars(ConsumerSteps)

FairSpecMutex == Init /\ [][NextFair]_vars /\ FairnessMutex

\* a producer that writes during and after eof, with contexts that never fire
NextMisuse ==
    \/ \E len \in 0 .. MaxSegLen : WriteCallAnytime(len)
    \/ WriteSend
    \/ WritePanic
    \/ WriteAck
    \/ EofCallAnytime
    \/ EofLock
    \/ EofCheck
    \/ EofClose
    \/ EofUnlock
    \/ Worker
    \/ \E m \in 1 .. MaxDest : ReadCall(m, "never")
    \/ ConsumerSteps

SpecMisuse == Init /\ [][NextMisuse]_vars

\* ----------------------------------------------------- state functions

\* the bytes the command of the call in progress has copied into buf
InFlight == IF rch = 0 THEN <<>> ELSE slots[rch].buf

\* a ReadWithContext call has returned
ReadDone == rpc = "idle" /\ rres.err # "none"

\* this step is the return of a ReadWithContext call with len(buf) > 0
ReadReturns == rpc = "select" /\ rpc' = "idle"

\* this step is the worker running the closure of the call in progress
WorkerDrains == wpc = "run" /\ wop.kind = "read" /\ wpc' = "recv" /\ wop.slot = rch

\* closed, the worker gone, nothing unread and no reply on its way
Drained == closed /\ finChClosed /\ Unread = <<>> /\ InFlight = <<>>

\* --------------------------------------------------------------- claims

\* what the return of a read must be once the appends and eof are done
OrderPreservedStep ==
    ReadReturns =>
        LET rem == Len(Appended) - Len(delivered)
        IN IF rem = 0
           THEN rres'.n = 0 /\ rres'.err = "EOF" /\ delivered' = delivered
           ELSE /\ rres'.n = Min(rm, rem)
                /\ rres'.err = "nil"
                /\ delivered' = SubSeq(Appended, 1, Len(delivered) + rres'.n)

\* C1: after the appends A1..An and eof, the reads (any non-zero sizes, a
\* context that never fires) return exactly the next min(len(buf), remaining)
\* bytes of A1..An each, and once nothing remains the read returns (0, io.EOF).
OrderPreserved ==
    /\ [](IsPrefix(delivered, Appended) /\ rres.err # "canceled")
    /\ [](rres.err = "EOF" => (delivered = Appended /\ rres.n = 0))
    /\ [][OrderPreservedStep]_vars

\* C1 witness: two appends were read back in full and io.EOF was returned.
OrderPreservedWitness ==
    rres.err = "EOF" /\ nwrites = 2 /\ Len(delivered) = MaxBytes /\ Len(heap) = 3

\* C2: a read that returned context.Canceled has consumed no byte: every
\* linked byte is delivered, held by the call in progress, or still unread.
CancelLeavesUnread ==
    rres.err = "canceled" => delivered \o InFlight \o Unread = linked

\* C3: with contexts that never fire, the bytes returned by reads are a prefix
\* of the bytes handed to write, and are all of them once a read returned io.EOF.
NoLossNoDup ==
    /\ IsPrefix(delivered, Appended)
    /\ (rres.err = "EOF" => delivered = Appended)

\* C3 witness: a read returned bytes while a write was in progress.
NoLossNoDupWitness ==
    ppc = "wait" /\ ReadDone /\ rres.n > 0 /\ delivered # <<>> /\ ~closed

\* an eof that finds closed set goes to its unlock and changes nothing else
EofLaterCallStep ==
    (cpc = "check" /\ closed /\ cpc' # cpc) =>
        (cpc' = "unlock" /\ closed' /\ UNCHANGED <<chainVars, chanVars, fault>>)

\* C4: the first eof sets closed and closes opCh once; a later eof changes
\* neither and does not panic; closed never goes back to false and only eof
\* sets it.
EofIdempotent ==
    /\ [](fault # "closeClosed" /\ opChCloses <= 1 /\ cpc # "panic")
    /\ []((neof >= 1 /\ cpc = "idle") => (closed /\ opChClosed /\ opChCloses = 1))
    /\ [][closed => closed']_vars
    /\ [][closed' # closed => (cpc = "check" /\ cpc' = "close")]_vars
    /\ [][EofLaterCallStep]_vars

\* C4 witness: the second eof call has returned.
EofIdempotentWitness ==
    neof = 2 /\ cpc = "idle" /\ closed /\ opChCloses = 1

\* what a drain copies and what the read then returns
ShortReadsStep ==
    /\ WorkerDrains =>
        LET n == Min(wop.m, Len(Unread))
        IN /\ slots'[rch] = [ch |-> <<n>>, buf |-> SubSeq(Unread, 1, n)]
           /\ Unread' = SubSeq(Unread, n + 1, Len(Unread))
    /\ (rpc = "select" /\ ~rclosed /\ slots[rch].ch # <<>> /\ rres' # rres) =>
        \/ rres'.err = "canceled"
        \/ /\ slots[rch].ch[1] > 0
           /\ rres'.n = slots[rch].ch[1]
           /\ rres'.err = "nil"
           /\ delivered' = delivered \o slots[rch].buf
    /\ (ReadReturns /\ rclosed /\ rres'.err # "canceled") =>
        LET n == Min(rm, Len(Unread))
        IN /\ rres'.n = n
           /\ (n > 0 => rres'.err = "nil")
           /\ delivered' = delivered \o SubSeq(Unread, 1, n)
           /\ Unread' = SubSeq(Unread, n + 1, Len(Unread))

\* C5: a drain copies min(len(buf), unread bytes) bytes, the first unread ones,
\* and a read that got n > 0 of them returns (n, nil) without another round,
\* whether or not more could be appended.
ShortReads == [][ShortReadsStep]_vars

\* C5 witness: one byte was unread and a read with len(buf) = 2 got just it.
ShortReadsWitness ==
    /\ rpc = "select" /\ ~rclosed /\ rm = 2 /\ ~closed /\ nwrites = 1
    /\ slots[rch] = [ch |-> <<1>>, buf |-> <<1>>]

\* C6: with contexts that never fire, no interleaving of a read with eof loses
\* a byte: every linked byte is delivered, held by the call in progress or
\* unread, and io.EOF is returned only when all of them are delivered.
ReadRacingCloseKeepsBytes ==
    /\ delivered \o InFlight \o Unread = linked
    /\ (rres.err = "EOF" => (Unread = <<>> /\ delivered = linked /\ linked = Appended))

\* C6 witness: a read that saw the buffer open gets its bytes from the worker
\* after eof closed the buffer.
ReadRacingCloseWitness ==
    rpc = "select" /\ ~rclosed /\ closed /\ opChClosed /\ InFlight # <<>>

\* the drained state stays, and what a read returns in it
EofTerminalStep ==
    /\ Drained => (Drained' /\ delivered' = delivered)
    /\ (Drained /\ ReadReturns) => (rres'.n = 0 /\ rres'.err \in {"EOF", "canceled"})
    /\ (ReadReturns /\ rres'.err = "EOF") => (rclosed /\ closed /\ Unread = <<>>)
    /\ (ReadReturns /\ rres'.err = "canceled") => ctx = "fired"

\* C7: io.EOF is returned only when the buffer is closed and nothing is
\* unread, also when nothing was ever appended; from then on the buffer stays
\* so and every read returns zero bytes, with io.EOF or context.Canceled.
EofTerminal ==
    /\ [](rres.err = "EOF" => (Drained /\ rres.n = 0))
    /\ [][EofTerminalStep]_vars

\* C7 witness: a read returned io.EOF on a buffer closed with no appends.
EofTerminalWitness ==
    rres.err = "EOF" /\ nwrites = 0 /\ linked = <<>>

\* what linking an element and draining the chain do to the unread bytes
AppendVisibleStep ==
    /\ (wpc = "run" /\ wop.kind = "write" /\ wpc' = "ack") =>
        /\ Unread' = Unread \o wop.data
        /\ heap'[tail'] = [buf |-> wop.data, next |-> 0]
        /\ heap'[tail].next = tail'
    /\ (WorkerDrains /\ Unread # <<>>) =>
        (slots'[rch].ch[1] >= 1 /\ slots'[rch].buf[1] = Unread[1])
    /\ (ReadReturns /\ rclosed /\ Unread # <<>> /\ rres'.err # "canceled") =>
        (rres'.n >= 1 /\ delivered' = delivered \o SubSeq(Unread, 1, rres'.n))

\* C8: write returns only when the worker has linked its element onto tail;
\* elements are linked in call order; and a command that runs afterwards finds
\* the bytes: a drain that finds unread bytes copies the first of them.
AppendVisible ==
    /\ [](ppc = "idle" => linked = Appended)
    /\ [](IsPrefix(linked, Appended))
    /\ [][AppendVisibleStep]_vars

\* C8 witness: the second write has returned and a read that started
\* afterwards on the open buffer holds bytes of it.
AppendVisibleWitness ==
    /\ ppc = "idle" /\ nwrites = 2 /\ ~closed
    /\ rpc = "select" /\ InFlight # <<>> /\ InFlight[Len(InFlight)] = nwritten

\* the three ways a read with len(buf) > 0 returns
ReadBlocksStep ==
    ReadReturns =>
        /\ \/ rres'.n > 0 /\ rres'.err = "nil"
           \/ rres'.n = 0 /\ rres'.err = "EOF" /\ closed
           \/ rres'.n = 0 /\ rres'.err = "canceled" /\ ctx = "fired"
        /\ (nwrites = 0 /\ neof = 0) => (rres'.n = 0 /\ rres'.err = "canceled")
\* the worker has just linked a non-empty element
JustAppended == wpc = "ack" /\ wop.data # <<>>
ReadWakes ==
    (rpc # "idle" /\ (JustAppended \/ closed \/ ctx = "fired")) ~> (rpc = "idle")

\* C9: a read with len(buf) > 0 returns only with bytes, with io.EOF on a
\* closed buffer or with context.Canceled on a fired context; with no append
\* and no eof it returns (0, context.Canceled); and under fair scheduling a
\* read in progress returns once the worker has linked bytes, the buffer is
\* closed or the context has fired.
ReadBlocksAndWakes ==
    /\ [][ReadBlocksStep]_vars
    /\ ReadWakes

\* C9 witness: no append, no eof, and the read returned (0, context.Canceled).
ReadBlocksWitness ==
    nwrites = 0 /\ neof = 0 /\ rres = [n |-> 0, err |-> "canceled", fired |-> TRUE]

\* what a deadline call of a wrapper does to the wrapped object
DeadlineDispatchStep ==
    /\ (dres' # dres /\ dres'.op = "SetReadDeadline") =>
        IF rd.cap
        THEN rd'.got = dres'.t /\ dres'.err = rd'.ret /\ dres'.err # "unsupported"
        ELSE dres'.err = "unsupported" /\ rd' = rd
    /\ (dres' # dres /\ dres'.op = "SetWriteDeadline") =>
        IF wr.cap
        THEN wr'.got = dres'.t /\ dres'.err = wr'.ret /\ dres'.err # "unsupported"
        ELSE dres'.err = "unsupported" /\ wr' = wr
    /\ (dres.op = "SetReadDeadline" /\ dres.err = "unsupported" /\ dres'.op = "Read") =>
        (dres'.err = "nil" /\ rd'.pos = rd.pos + 1)

\* C10: SetReadDeadline and SetWriteDeadline of the wrappers return
\* unsupported and leave the wrapped object as it was when it has no deadline
\* setter, and a read through the wrapper then still succeeds; when it has one,
\* the call reaches it with the same deadline and returns what it returned.
DeadlineDispatch ==
    /\ [](~rd.cap => rd = [Object(FALSE) EXCEPT !.pos = rd.pos])
    /\ [](~wr.cap => wr = [Object(FALSE) EXCEPT !.pos = wr.pos])
    /\ [][DeadlineDispatchStep]_vars

\* C10 witness: the reader has no deadline setter, its wrapper answered
\* unsupported, and a read went through; the writer has the setter and got
\* the deadline.
DeadlineDispatchWitness ==
    /\ ~rd.cap /\ rd.pos = 1 /\ dres.op = "Read" /\ dres.err = "nil"
    /\ wr.cap /\ wr.got = <<MaxTime>> /\ wr.deadline = <<MaxTime>>

\* what tryCancelReader and tryCancelWriter do to the object, and what a read
\* or write of an object whose deadline has passed returns
CancellationTriggerStep ==
    /\ (dres' # dres /\ dres'.op = "tryCancelReader") =>
        IF rd.cap
        THEN /\ rd'.got = <<Epoch>>
             /\ dres'.err = rd'.ret
             /\ dres'.err # "unsupported"
             /\ dres'.err = "nil" => rd'.deadline = <<Epoch>>
        ELSE dres'.err = "unsupported" /\ rd' = rd
    /\ (dres' # dres /\ dres'.op = "tryCancelWriter") =>
        IF wr.cap
        THEN /\ wr'.got = <<Epoch>>
             /\ dres'.err = wr'.ret
             /\ dres'.err # "unsupported"
             /\ dres'.err = "nil" => wr'.deadline = <<Epoch>>
        ELSE dres'.err = "unsupported" /\ wr' = wr
    /\ (dres.op = "tryCancelReader" /\ dres.err = "nil" /\ dres'.op = "Read") =>
        (dres'.err = "timeout" /\ rd' = rd)
    /\ (dres.op = "tryCancelWriter" /\ dres.err = "nil" /\ dres'.op = "Write") =>
        (dres'.err = "timeout" /\ wr' = wr)
    /\ (rd.deadline = <<Epoch>> /\ dres' # dres /\ dres'.op = "Read") =>
        (dres'.err = "timeout" /\ rd'.pos = rd.pos)
    /\ (wr.deadline = <<Epoch>> /\ dres' # dres /\ dres'.op = "Write") =>
        (dres'.err = "timeout" /\ wr'.pos = wr.pos)

\* C11: tryCancelReader and tryCancelWriter hand the epoch instant to the
\* deadline setter of an object that has one and return what it returned; once
\* the setter took it, the object's deadline is the epoch and, while it stands,
\* every read or write fails with a timeout; an object without the setter gets
\* unsupported and is left as it was.
CancellationTrigger ==
    /\ []((dres.op = "tryCancelReader" /\ dres.err = "nil") => expired(rd))
    /\ []((dres.op = "tryCancelWriter" /\ dres.err = "nil") => expired(wr))
    /\ [](dres.op \in {"tryCancelReader", "tryCancelWriter"} /\ dres.err # "unsupported"
            => dres.t = <<Epoch>>)
    /\ [][CancellationTriggerStep]_vars

\* C11 witness: a reader with the setter was read from once, then canceled, and
\* its next read timed out; the writer has no setter.
CancellationTriggerWitness ==
    /\ rd.cap /\ rd.pos = 1 /\ rd.got = <<Epoch>> /\ rd.ret = "nil" /\ expired(rd)
    /\ dres.op = "Read" /\ dres.err = "timeout"
    /\ ~wr.cap

\* a write call is in progress
Writing == ppc \in {"send", "wait"}

\* C12: a write on the open buffer waits only for the worker: to receive its
\* closure and to link the element; the worker never waits for a reader; and
\* under fair scheduling every write call returns, with or without reads, with
\* a read in flight and after a canceled read.
AppendNeverBlocks ==
    /\ [](Writing => (~closed /\ ~opChClosed /\ wpc # "exit"))
    /\ [](ppc = "send" => (wpc = "recv" => ENABLED WriteSend))
    /\ [](ppc = "wait" => (wpc \in {"run", "ack"} /\ wop.kind = "write"))
    /\ [](wpc = "run" => ENABLED Worker)
    /\ [](wpc = "ack" => ENABLED WriteAck)
    /\ (Writing ~> (ppc = "idle"))

\* C12 witness: both writes have returned on the open buffer, the second while
\* no read was left to take its bytes: the only read was canceled.
AppendNeverBlocksWitness ==
    /\ nwrites = MaxWrites /\ ppc = "idle" /\ ~closed /\ linked = Appended
    /\ rpc = "idle" /\ rres.err = "canceled" /\ delivered = <<>> /\ Unread # <<>>

\* a call of write, eof or ReadWithContext is in progress
InProgress == ppc # "idle" \/ cpc # "idle" \/ rpc # "idle"

\* a step of a task other than the start of a call
TaskStep ==
    WriteSend \/ WriteAck \/ EofLock \/ EofCheck \/ EofClose \/ EofUnlock
    \/ Worker \/ ConsumerSteps \/ ReadCancel

\* C13: eof waits only for b.mu; whoever holds b.mu while eof waits is a
\* ReadWithContext that can go on (its send finds the queue open and a worker
\* that comes back to receive); no state with a call in progress leaves every
\* task blocked; and under fair scheduling every eof call returns (no eof call
\* stays in progress for ever) and the worker closes finCh once the buffer is
\* closed (closed, once set, stays set, so it cannot stay set with finCh open).
CloseDeadlockFree ==
    /\ [](InProgress => ENABLED TaskStep)
    /\ [](fault = "none")
    /\ []((cpc = "lock" /\ mu = "free") => ENABLED EofLock)
    /\ [](cpc \in {"check", "close", "unlock"} => (mu = "closer" /\ ENABLED Closer))
    /\ []((cpc = "lock" /\ mu # "free") =>
            /\ mu = "reader"
            /\ rpc \in {"send", "unlock"}
            /\ rpc = "send" => (~opChClosed /\ wpc \in {"recv", "run"})
            /\ ENABLED (ReadSend \/ ReadUnlock \/ Worker))
    /\ []<>(cpc = "idle")
    /\ []<>(closed => finChClosed)

\* C13 witness: eof waits for b.mu, which a ReadWithContext holds while it
\* waits to hand its command to the worker, busy with the command of a
\* canceled call.
CloseDeadlockFreeWitness ==
    cpc = "lock" /\ mu = "reader" /\ rpc = "send" /\ wpc = "run" /\ ppc = "idle"

\* this step is the worker running a command
WorkerRuns == wpc = "run" /\ wpc' # "run"

\* this step is the consumer's own b.read(buf) of the closed branch
DirectDrain == rpc = "select" /\ rclosed /\ rpc' = "idle" /\ rres'.err # "canceled"

\* who touches the chain in a step, and in which state
ExclusiveChainStep ==
    /\ chainVars' # chainVars => (WorkerRuns \/ DirectDrain)
    /\ WorkerRuns => (~finChClosed /\ ~DirectDrain /\ UNCHANGED <<rpc, ppc, cpc>>)
    /\ DirectDrain =>
        /\ closed /\ opChClosed /\ finChClosed
        /\ wpc = "exit" /\ wop = NoOp
        /\ UNCHANGED workerVars

\* C14: head, tail and the elements are touched only by the worker running one
\* command, or by the consumer's own b.read in the closed branch, and that one
\* runs only when the buffer is closed, finCh is closed and the worker has
\* left its loop holding no command; the worker never runs a command then.
ExclusiveChain ==
    /\ [](finChClosed => (closed /\ opChClosed /\ wpc = "exit" /\ wop = NoOp))
    /\ [](wpc \in {"run", "ack"} => (~finChClosed /\ wop # NoOp))
    /\ [][wpc = "exit" => wpc' = "exit"]_vars
    /\ [][ExclusiveChainStep]_vars

\* C14 witness: after reads served by the worker, the consumer is about to
\* drain the remaining bytes itself, the worker having closed finCh.
ExclusiveChainWitness ==
    /\ rpc = "select" /\ rclosed /\ finChClosed /\ wpc = "exit"
    /\ Unread # <<>> /\ delivered # <<>>

\* following next links from element a reaches element b within fuel links
RECURSIVE Reaches(_, _, _, _)
Reaches(hp, a, b, fuel) ==
    IF a = b THEN TRUE
    ELSE IF a = 0 \/ fuel = 0 THEN FALSE
    ELSE Reaches(hp, hp[a].next, b, fuel - 1)

\* the elements from a up to, not including, b along the next links
RECURSIVE Passed(_, _, _, _)
Passed(hp, a, b, fuel) ==
    IF a = b \/ a = 0 \/ fuel = 0 THEN {}
    ELSE {a} \cup Passed(hp, hp[a].next, b, fuel - 1)

\* what a step that moves head, and one that moves tail, must be
ChainStep ==
    /\ head' # head =>
        /\ Reaches(heap, head, head', Len(heap))
        /\ Reaches(heap, head', tail, Len(heap))
        /\ tail' = tail
        /\ \A i \in Passed(heap, head, head', Len(heap)) :
            /\ i # tail
            /\ heap'[i].buf = <<>>
            /\ heap'[i].next = heap[i].next
        /\ \E k \in 0 .. Len(Unread) : Unread' = SubSeq(Unread, k + 1, Len(Unread))
    /\ tail' # tail =>
        /\ head' = head
        /\ heap[tail].next = 0
        /\ heap'[tail].next = tail'
        /\ tail' = Len(heap) + 1
        /\ Len(heap') = Len(heap) + 1
    /\ \A i \in 1 .. Len(heap) :
        /\ heap'[i].next # heap[i].next => (i = tail /\ heap[i].next = 0)
        /\ \E k \in 0 .. Len(heap[i].buf) :
            heap'[i].buf = SubSeq(heap[i].buf, k + 1, Len(heap[i].buf))
        /\ heap'[i].buf # heap[i].buf => Reaches(heap, head, i, Len(heap))

\* C15: head and tail are never nil, tail is reached from head along the next
\* links, tail.next is nil; head moves only along the links, only over elements
\* whose bytes are all copied and that are not tail, so no unread byte is
\* skipped and head never passes tail.
ChainInvariant ==
    /\ [](head \in 1 .. Len(heap) /\ tail \in 1 .. Len(heap))
    /\ [](Reaches(heap, head, tail, Len(heap)))
    /\ [](heap[tail].next = 0)
    /\ [][ChainStep]_vars

\* C15 witness: head has moved off the first element onto one that is not the
\* tail and still holds an unread byte.
ChainInvariantWitness ==
    /\ head # 1 /\ head # tail /\ Len(heap) = 3
    /\ heap[1].buf = <<>> /\ heap[head].buf # <<>> /\ delivered # <<>>

\* the bytes of the sequence s, as a set
Range(s) == {s[i] : i \in 1 .. Len(s)}

\* what a write that finds the queue closed does, and what may still be
\* linked once the queue is closed
AppendAfterCloseStep ==
    /\ (ppc = "send" /\ opChClosed /\ ppc' # ppc) =>
        /\ ppc' = "panic"
        /\ fault' = "sendClosed"
        /\ UNCHANGED <<chainVars, linked, delivered, slots, workerVars>>
    /\ (opChClosed /\ linked' # linked) => (ppc = "wait" /\ wpc = "run" /\ wop.data = pdata)
    /\ ppc = "panic" => (ppc' = "panic" /\ pdata' = pdata)

\* C16: once eof has closed the queue, a write call that has not handed its
\* closure to the worker, started before the close or after it, cannot hand it
\* over any more: its send panics, nothing of it is ever linked onto the chain
\* or returned by a read, and the call does not return.
AppendAfterClose ==
    /\ []((ppc = "send" /\ opChClosed) => (~ENABLED WriteSend /\ ENABLED WritePanic))
    /\ [](ppc = "panic" =>
            /\ fault = "sendClosed"
            /\ opChClosed
            /\ Range(pdata) \cap (Range(linked) \cup Range(Unread) \cup Range(delivered)) = {})
    /\ [](IsPrefix(delivered, linked))
    /\ [](rres.err = "EOF" => (delivered = linked /\ Unread = <<>>))
    /\ [][AppendAfterCloseStep]_vars

\* C16 witness: the first write was linked, the second found the queue closed
\* and panicked; the reads returned the first write's byte and then io.EOF.
AppendAfterCloseWitness ==
    /\ ppc = "panic" /\ fault = "sendClosed" /\ nwrites = 2 /\ pdata = <<2, 3>>
    /\ linked = <<1>> /\ delivered = <<1>> /\ rres.err = "EOF"

\* the three shapes of a return of ReadWithContext with len(buf) > 0
ResultShapeStep ==
    ReadReturns =>
        /\ \/ rres'.err = "nil" /\ rres'.n \in 1 .. rm
           \/ rres'.err = "canceled" /\ rres'.n = 0
           \/ rres'.err = "EOF" /\ rres'.n = 0
        /\ rres'.err = "canceled" => (ctx = "fired" /\ rres'.fired)

\* C17: a ReadWithContext with len(buf) = m > 0 returns (n, nil) with
\* 1 <= n <= m, (0, context.Canceled) or (0, io.EOF); no error comes with a
\* count other than zero, and context.Canceled only when the context has fired;
\* until it returns its named result n is zero.
ResultShape ==
    /\ [](rres.err \in {"none", "nil", "EOF", "canceled"})
    /\ [](rres.err \in {"none", "EOF", "canceled"} => rres.n = 0)
    /\ [](rres.err = "canceled" => rres.fired)
    /\ [](rres.n \in 0 .. MaxDest)
    /\ [][ResultShapeStep]_vars

\* C17 witness: a read whose context had fired found its reply as well and
\* returned the bytes, a full destination of them.
ResultShapeWitness ==
    rres = [n |-> MaxDest, err |-> "nil", fired |-> TRUE] /\ rpc = "idle"

\* what the send of a read is, and what b.mu keeps still while the read holds it
ReadSubmitStep ==
    /\ (rpc = "send" /\ rpc' # "send") =>
        /\ rpc' = "unlock"
        /\ ~closed /\ ~opChClosed /\ ~rclosed
        /\ mu = "reader"
        /\ wop' = [kind |-> "read", m |-> rm, slot |-> rch]
        /\ fault' = "none"
    /\ mu = "reader" => (closed' = closed /\ opChClosed' = opChClosed)
    /\ (rpc = "lock" /\ rpc' # "lock") => (mu = "free" /\ mu' = "reader" /\ rclosed' = closed)

\* C18: ReadWithContext sends its command only while it holds b.mu, in a state
\* where closed is false and the queue is open, as eof sets closed and closes
\* the queue under b.mu too; no read panics sending on the closed queue.
ReadSubmitsOpen ==
    /\ [](rpc = "send" => (mu = "reader" /\ ~rclosed /\ ~closed /\ ~opChClosed))
    /\ [](closed # opChClosed => (mu = "closer" /\ cpc = "close"))
    /\ [](fault # "sendClosed" /\ rpc # "panic")
    /\ [][ReadSubmitStep]_vars

\* C18 witness: a read has handed its command to the worker on the open queue
\* and still holds b.mu, for which an eof call is waiting.
ReadSubmitsOpenWitness ==
    /\ rpc = "unlock" /\ ~rclosed /\ mu = "reader" /\ cpc = "lock" /\ ~closed
    /\ wpc = "run" /\ wop.kind = "read" /\ wop.slot = rch

\* the worker holds the command of a call that has returned
LateCommand == wpc = "run" /\ wop.kind = "read" /\ wop.slot # rch

\* the bytes that command's b.read(buf) copies into the destination of its call
LateCopy == IF LateCommand THEN read(heap, head, tail, wop.m).out ELSE <<>>

\* C19: once a ReadWithContext call has returned, no task writes into its
\* destination: the command a canceled call left with the worker copies no
\* byte into it and takes none from the chain.
NoEffectAfterReturn ==
    [][(LateCommand /\ wpc' = "recv") => (LateCopy = <<>> /\ Unread' = Unread)]_vars

\* this step is a whole ReadWithContext call: called and returned at once
ReadAtOnce == rpc = "idle" /\ rpc' = "idle" /\ rres' # rres

\* what such a call returns and leaves alone
EmptyDestinationStep ==
    ReadAtOnce =>
        /\ rres'.n = 0
        /\ rres'.err = "nil"
        /\ UNCHANGED <<chainVars, closed, mu, chanVars, workerVars, producerVars,
                       linked, closerVars, slots, delivered, fault>>

\* C20: ReadWithContext with len(buf) = 0 returns (0, nil) at once in every
\* state of the buffer, fired context and closed, drained buffer included: it
\* takes no lock, sends no command, waits for nothing and consumes no byte; no
\* call with len(buf) = 0 is ever in progress.
EmptyDestination ==
    /\ [](rpc = "idle" => \A tok \in Tokens : ENABLED ReadCall(0, tok))
    /\ [](rpc # "idle" => rm \in 1 .. MaxDest)
    /\ [](wop.kind = "read" => wop.m \in 1 .. MaxDest)
    /\ [][EmptyDestinationStep]_vars

\* C20 witness: the buffer is closed and drained, all bytes delivered, and a
\* call with len(buf) = 0 and a fired context has returned (0, nil).
EmptyDestinationWitness ==
    /\ Drained /\ delivered = Appended /\ nwritten = MaxBytes
    /\ rpc = "idle" /\ rres = [n |-> 0, err |-> "nil", fired |-> TRUE]

====
